---------------------------- MODULE Spec2Model ----------------------------
(***************************************************************************)
(* A model of generate_recitation_surah_timestamps_task                     *)
(* (src/quran/tasks.py, lines 137-260): one Celery task that resolves the   *)
(* RecitationSurah association, loads the surah's words, posts them to the  *)
(* forced-alignment service, matches the returned word events to the words  *)
(* with one forward cursor, writes one RecitationSurahTimestamp per match   *)
(* and reports the outcome in a Notification.                               *)
(*                                                                         *)
(* The task is sequential; pc is its position.  Every call that leaves the *)
(* process (the ORM, the file storage, requests.post) either returns or    *)
(* raises, and each of the two outcomes is an action.                      *)
(***************************************************************************)
EXTENDS Integers, Sequences, FiniteSets, TLC

VARIABLES
    pc,                 \* position of the task in its body
    RecitationSurah,    \* table: the association rows of this (recitation, surah)
    Timestamp,          \* table: RecitationSurahTimestamp rows, in creation order
    Notification,       \* table: Notification rows, in creation order
    posts,              \* number of requests.post calls made
    recitation_surah,   \* local: pk of the association the task works on
    created,            \* local: second value of get_or_create
    audio_url,          \* local
    words,              \* local: the texts of the Word rows, in query order
    text,               \* local: ' '.join of the word texts
    user,               \* local: recitation.creator or None
    alignment_data,     \* local: the decoded response body
    evt,                \* local: 1-based position of the for loop in alignment_data
    word_idx,           \* local: the cursor into words (0-based, as in the code)
    exc,                \* the exception being handled or propagated (str(e))
    result,             \* the task's return value
    file_obj,           \* argument: the file of this invocation
    history             \* what the earlier invocations for the pair ended with

vars == <<pc, RecitationSurah, Timestamp, Notification, posts, recitation_surah,
          created, audio_url, words, text, user, alignment_data, evt, word_idx,
          exc, result, file_obj, history>>

\* What an action of the task leaves alone: its argument and the past
invocation == <<file_obj, history>>

-----------------------------------------------------------------------------
(* Bounds of the model *)

MaxTokens == 4
MaxEvents == 2
MaxRuns == 2

-----------------------------------------------------------------------------
(* Values *)

None == "None"

\* Texts the service can return, and the texts of the surah's words
Texts == {"a", "b", "c"}
WordTexts == {"a", "b"}

\* file_obj of the invocation, a file some earlier run attached, and the
\* file_obj a later invocation may bring
NewFile == "file_obj"
OldFile == "old_file"
OtherFile == "other_file_obj"

RecitationUuid == "r1"

\* Sequences over S of length at most n
SeqsUpTo(S, n) == UNION {[1..k -> S] : k \in 0..n}

\* Word rows of a surah: any sequence over WordTexts, one with a repeated word
\* and a third text, and rows whose text is empty
TokenSeqs ==
    SeqsUpTo(WordTexts, MaxTokens) \cup {<<"a", "b", "a", "c">>, <<"">>, <<"", "">>}

\* One entry of the service's JSON array, a dict: {"text":..., "start":...,
\* "end":...}, or the same without its "end" key
Event(t, s, e) == [text |-> t, start |-> s, end |-> e]
OpenEvent(t, s) == [text |-> t, start |-> s]

\* Well-formed events: a word without an end, or one second later with one
Events == {OpenEvent(t, 0) : t \in Texts} \cup {Event(t, 1, 2) : t \in Texts}

EventSeqs == SeqsUpTo(Events, MaxEvents)

\* What get_absolute_url can return
Urls == {"", "https://cdn/f.mp3"}

\* str(e) of the exceptions the collaborators raise
AssocError == "association error"
UrlError == "url error"
WordsError == "words query error"
PersistError == "timestamp insert error"
NotifyError == "notification insert error"
AlignErrors == {"connection error", "500 Server Error", "read timed out",
                "Expecting value: line 1 column 1 (char 0)"}

-----------------------------------------------------------------------------
(* Pure parts of the task *)

\* ' '.join([w.text for w in words])   (line 158)
RECURSIVE Join(_)
Join(ws) ==
    IF Len(ws) = 0 THEN ""
    ELSE IF Len(ws) = 1 THEN ws[1]
    ELSE ws[1] \o " " \o Join(Tail(ws))

\* Python truthiness of a str or None
Truthy(s) == s # None /\ s # ""

\* (datetime.min + timedelta(seconds=s)).time(): the time of day, in seconds
SecondsPerDay == 24 * 60 * 60
TimeOfDay(s) == s % SecondsPerDay

\* word_data.get('end') is truthy: the key is there and its number is not 0
HasEnd(word_data) == "end" \in DOMAIN word_data /\ word_data.end # 0

\* word=words[word_idx + 1] for word=words[word_idx] at line 200
TimestampRow_NextWord(rs, wd, idx) ==
    [recitation_surah |-> rs, word |-> idx + 1,
     start_time |-> TimeOfDay(wd.start)]

\* lines 198-203: the row of one match; a null end_time is a row without it
TimestampRow(rs, word_data, idx) ==
    IF HasEnd(word_data)
    THEN [recitation_surah |-> rs, word |-> idx,
          start_time |-> TimeOfDay(word_data.start),
          end_time |-> TimeOfDay(word_data.end)]
    ELSE [recitation_surah |-> rs, word |-> idx,
          start_time |-> TimeOfDay(word_data.start)]

\* The three return values (lines 218, 232/260, 246)
ReturnGenerated == "timestamps generated"
ReturnMissing == "Failed: missing audio_url or text"
ReturnFailed(e) == "Failed to generate timestamps: " \o e

\* The Notification rows of lines 208-217, 222-231, 236-245 and 250-259
SuccessNotification ==
    [user |-> user, resource_controller |-> "recitations",
     message |-> "Recitation timestamps generated for recitation "
                 \o RecitationUuid \o ".",
     message_type |-> "success"]

FailedNotification(controller, cause) ==
    [user |-> user, resource_controller |-> controller,
     message |-> "Failed to generate recitation timestamps for recitation "
                 \o RecitationUuid \o ": " \o cause,
     message_type |-> "failed"]

-----------------------------------------------------------------------------
(* Initial state: the task has been invoked; the association table holds    *)
(* no row for the pair, or one row with or without a file.                  *)

Init ==
    /\ pc = "get_or_create"
    /\ RecitationSurah \in {<<>>, <<[id |-> 1, file |-> None]>>,
                            <<[id |-> 1, file |-> OldFile]>>}
    /\ Timestamp = <<>>
    /\ Notification = <<>>
    /\ posts = 0
    /\ recitation_surah = 0
    /\ created = FALSE
    /\ audio_url = None
    /\ words = <<>>
    /\ text = None
    /\ user = None
    /\ alignment_data = <<>>
    /\ evt = 0
    /\ word_idx = 0
    /\ exc = None
    /\ result = None
    /\ file_obj = NewFile
    /\ history = <<>>

-----------------------------------------------------------------------------
(* Lines 142-159: outside every try block                                   *)

\* An exception that no handler of the task catches
Propagate(e) ==
    /\ pc' = "raised"
    /\ exc' = e

\* lines 142-146
GetOrCreate ==
    /\ pc = "get_or_create"
    /\ IF Len(RecitationSurah) > 0
       THEN /\ recitation_surah' = RecitationSurah[1].id
            /\ created' = FALSE
            /\ UNCHANGED RecitationSurah
       ELSE /\ RecitationSurah' = <<[id |-> 1, file |-> file_obj]>>
            /\ recitation_surah' = 1
            /\ created' = TRUE
    /\ pc' = "attach_file"
    /\ UNCHANGED invocation
    /\ UNCHANGED <<Timestamp, Notification, posts, audio_url, words, text, user,
                   alignment_data, evt, word_idx, exc, result>>

GetOrCreateRaises ==
    /\ pc = "get_or_create"
    /\ Propagate(AssocError)
    /\ UNCHANGED invocation
    /\ UNCHANGED <<RecitationSurah, Timestamp, Notification, posts,
                   recitation_surah, created, audio_url, words, text, user,
                   alignment_data, evt, word_idx, result>>

\* Line 149 without its second operand: the file is set on every reuse
NeedsFile_Always == ~created

\* line 149
NeedsFile == ~created /\ RecitationSurah[recitation_surah].file = None

\* lines 149-151
AttachFile ==
    /\ pc = "attach_file"
    /\ IF NeedsFile
       THEN RecitationSurah' =
                [RecitationSurah EXCEPT ![recitation_surah].file = file_obj]
       ELSE UNCHANGED RecitationSurah
    /\ pc' = "get_url"
    /\ UNCHANGED invocation
    /\ UNCHANGED <<Timestamp, Notification, posts, recitation_surah, created,
                   audio_url, words, text, user, alignment_data, evt, word_idx,
                   exc, result>>

\* line 151: save raises
AttachFileRaises ==
    /\ pc = "attach_file"
    /\ NeedsFile
    /\ Propagate(AssocError)
    /\ UNCHANGED invocation
    /\ UNCHANGED <<RecitationSurah, Timestamp, Notification, posts,
                   recitation_surah, created, audio_url, words, text, user,
                   alignment_data, evt, word_idx, result>>

\* line 154
GetUrl ==
    /\ pc = "get_url"
    /\ \E u \in Urls : audio_url' = u
    /\ pc' = "load_words"
    /\ UNCHANGED invocation
    /\ UNCHANGED <<RecitationSurah, Timestamp, Notification, posts,
                   recitation_surah, created, words, text, user, alignment_data,
                   evt, word_idx, exc, result>>

GetUrlRaises ==
    /\ pc = "get_url"
    /\ Propagate(UrlError)
    /\ UNCHANGED invocation
    /\ UNCHANGED <<RecitationSurah, Timestamp, Notification, posts,
                   recitation_surah, created, audio_url, words, text, user,
                   alignment_data, evt, word_idx, result>>

\* lines 157-159, the Word rows of the surah being one of seqs
LoadWordsFrom(seqs) ==
    /\ pc = "load_words"
    /\ \E ws \in seqs :
          /\ words' = ws
          /\ text' = Join(ws)
    /\ \E u \in {None, "creator"} : user' = u
    /\ pc' = "check_inputs"
    /\ UNCHANGED invocation
    /\ UNCHANGED <<RecitationSurah, Timestamp, Notification, posts,
                   recitation_surah, created, audio_url, alignment_data, evt,
                   word_idx, exc, result>>

LoadWords == LoadWordsFrom(TokenSeqs)

LoadWordsRaises ==
    /\ pc = "load_words"
    /\ Propagate(WordsError)
    /\ UNCHANGED invocation
    /\ UNCHANGED <<RecitationSurah, Timestamp, Notification, posts,
                   recitation_surah, created, audio_url, words, text, user,
                   alignment_data, evt, word_idx, result>>

-----------------------------------------------------------------------------
(* Lines 160-246: inside the outer and the inner try                        *)

\* An exception raised inside the inner try (lines 162-218)
RaiseInner(e) ==
    /\ pc' = "except_inner"
    /\ exc' = e

\* An exception raised in a handler or in the else branch (lines 219-246)
RaiseOuter(e) ==
    /\ pc' = "except_outer"
    /\ exc' = e

\* Line 161 with `or` for `and`
CheckInputs_Or ==
    /\ pc = "check_inputs"
    /\ pc' = IF Truthy(audio_url) \/ Truthy(text) THEN "post" ELSE "notify_missing"
    /\ UNCHANGED invocation
    /\ UNCHANGED <<RecitationSurah, Timestamp, Notification, posts,
                   recitation_surah, created, audio_url, words, text, user,
                   alignment_data, evt, word_idx, exc, result>>

\* line 161
CheckInputs ==
    /\ pc = "check_inputs"
    /\ pc' = IF Truthy(audio_url) /\ Truthy(text) THEN "post" ELSE "notify_missing"
    /\ UNCHANGED invocation
    /\ UNCHANGED <<RecitationSurah, Timestamp, Notification, posts,
                   recitation_surah, created, audio_url, words, text, user,
                   alignment_data, evt, word_idx, exc, result>>

\* The for statement of line 182 with its next item at position k
ForNext(k, data) == IF k > Len(data) THEN "notify_success" ELSE "while"

\* lines 167-181: the call returns 2xx with a JSON array of word events, one
\* of bodies
PostFrom(bodies) ==
    /\ pc = "post"
    /\ posts' = posts + 1
    /\ \E body \in bodies :
          /\ alignment_data' = body
          /\ pc' = ForNext(1, body)
    /\ word_idx' = 0
    /\ evt' = 1
    /\ UNCHANGED invocation
    /\ UNCHANGED <<RecitationSurah, Timestamp, Notification, recitation_surah,
                   created, audio_url, words, text, user, exc, result>>

Post == PostFrom(EventSeqs)

\* lines 167-178: requests.post, raise_for_status or json raises
PostRaises ==
    /\ pc = "post"
    /\ posts' = posts + 1
    /\ \E e \in AlignErrors : RaiseInner(e)
    /\ UNCHANGED invocation
    /\ UNCHANGED <<RecitationSurah, Timestamp, Notification, recitation_surah,
                   created, audio_url, words, text, user, alignment_data, evt,
                   word_idx, result>>

\* The item the for loop holds
word_data == alignment_data[evt]

\* The word under the cursor
WordAt(idx) == words[idx + 1]

\* The while condition with == for !=
WhileCond_Inverted == word_idx < Len(words) /\ words[word_idx + 1] = word_data.text

\* The while condition that stops where no later word has the event's text
WhileCond_LookAhead ==
    /\ word_idx < Len(words)
    /\ words[word_idx + 1] # word_data.text
    /\ \E j \in (word_idx + 1)..(Len(words) - 1) : words[j + 1] = word_data.text

\* Line 185 with the operands of `and` exchanged: the text is read first
TextKeyError_Eager == "text" \notin DOMAIN word_data

\* line 185: the while condition; word_data['text'] is read only when the
\* cursor is inside words
TextKeyError == word_idx < Len(words) /\ "text" \notin DOMAIN word_data
WhileCond == word_idx < Len(words) /\ WordAt(word_idx) # word_data.text

\* lines 185-186: one iteration of the while loop
WhileStep ==
    /\ pc = "while"
    /\ ~TextKeyError
    /\ WhileCond
    /\ word_idx' = word_idx + 1
    /\ UNCHANGED invocation
    /\ UNCHANGED <<pc, RecitationSurah, Timestamp, Notification, posts,
                   recitation_surah, created, audio_url, words, text, user,
                   alignment_data, evt, exc, result>>

\* line 185: KeyError('text')
WhileRaises ==
    /\ pc = "while"
    /\ TextKeyError
    /\ RaiseInner("'text'")
    /\ UNCHANGED invocation
    /\ UNCHANGED <<RecitationSurah, Timestamp, Notification, posts,
                   recitation_surah, created, audio_url, words, text, user,
                   alignment_data, evt, word_idx, result>>

\* lines 189-190: what the two conversions raise, or None: KeyError('start'),
\* and OverflowError when datetime.min + timedelta falls before year 1
ConversionError(wd) ==
    IF "start" \notin DOMAIN wd THEN "'start'"
    ELSE IF wd.start < 0 THEN "date value out of range"
    ELSE IF HasEnd(wd) /\ wd.end < 0 THEN "date value out of range"
    ELSE None

\* Line 204 left out, doubled, or resetting the cursor
AfterMatch_Stay(idx) == idx
AfterMatch_Skip(idx) == idx + 2
AfterMatch_Reset(idx) == 0

\* The cursor after a match (line 204)
AfterMatch(idx) == idx + 1

\* update_or_create for create at line 198: one row per association and word
Match_Upsert ==
    /\ pc = "while"
    /\ ~TextKeyError
    /\ ~WhileCond
    /\ word_idx < Len(words)
    /\ ConversionError(word_data) = None
    /\ LET row == TimestampRow(recitation_surah, word_data, word_idx)
           same == {i \in 1..Len(Timestamp) :
                       /\ Timestamp[i].recitation_surah = recitation_surah
                       /\ Timestamp[i].word = word_idx}
       IN  Timestamp' = IF same = {} THEN Append(Timestamp, row)
                        ELSE [i \in 1..Len(Timestamp) |->
                                 IF i \in same THEN row ELSE Timestamp[i]]
    /\ word_idx' = AfterMatch(word_idx)
    /\ evt' = evt + 1
    /\ pc' = ForNext(evt + 1, alignment_data)
    /\ UNCHANGED invocation
    /\ UNCHANGED <<RecitationSurah, Notification, posts, recitation_surah,
                   created, audio_url, words, text, user, alignment_data, exc,
                   result>>

\* Lines 198-203 moved out of the loop: the match is only remembered
Match_Deferred ==
    /\ pc = "while"
    /\ ~TextKeyError
    /\ ~WhileCond
    /\ word_idx < Len(words)
    /\ ConversionError(word_data) = None
    /\ word_idx' = AfterMatch(word_idx)
    /\ evt' = evt + 1
    /\ pc' = ForNext(evt + 1, alignment_data)
    /\ UNCHANGED invocation
    /\ UNCHANGED <<RecitationSurah, Timestamp, Notification, posts,
                   recitation_surah, created, audio_url, words, text, user,
                   alignment_data, exc, result>>

\* lines 187-204: the while loop ended on a word equal to the event's text
Match ==
    /\ pc = "while"
    /\ ~TextKeyError
    /\ ~WhileCond
    /\ word_idx < Len(words)
    /\ ConversionError(word_data) = None
    /\ Timestamp' = Append(Timestamp,
                           TimestampRow(recitation_surah, word_data, word_idx))
    /\ word_idx' = AfterMatch(word_idx)
    /\ evt' = evt + 1
    /\ pc' = ForNext(evt + 1, alignment_data)
    /\ UNCHANGED invocation
    /\ UNCHANGED <<RecitationSurah, Notification, posts, recitation_surah,
                   created, audio_url, words, text, user, alignment_data, exc,
                   result>>

\* lines 189-203: a conversion or RecitationSurahTimestamp.objects.create raises
MatchRaises ==
    /\ pc = "while"
    /\ ~TextKeyError
    /\ ~WhileCond
    /\ word_idx < Len(words)
    /\ RaiseInner(IF ConversionError(word_data) # None
                  THEN ConversionError(word_data)
                  ELSE PersistError)
    /\ UNCHANGED invocation
    /\ UNCHANGED <<RecitationSurah, Timestamp, Notification, posts,
                   recitation_surah, created, audio_url, words, text, user,
                   alignment_data, evt, word_idx, result>>

\* lines 185-187, 205: the cursor is at the end of words; the event is skipped
NoMatch ==
    /\ pc = "while"
    /\ word_idx >= Len(words)
    /\ evt' = evt + 1
    /\ pc' = ForNext(evt + 1, alignment_data)
    /\ UNCHANGED invocation
    /\ UNCHANGED <<RecitationSurah, Timestamp, Notification, posts,
                   recitation_surah, created, audio_url, words, text, user,
                   alignment_data, word_idx, exc, result>>

\* `if user: Notification.objects.create(...)` followed by `return value`
NotifyAndReturn(row, value) ==
    /\ Notification' = IF Truthy(user) THEN Append(Notification, row)
                       ELSE Notification
    /\ result' = value
    /\ pc' = "returned"

\* Lines 207-218 reporting a run without a match as a failure
NotifySuccess_FailOnZero ==
    /\ pc = "notify_success"
    /\ IF Timestamp = <<>>
       THEN NotifyAndReturn(
               FailedNotification("recitations", "no word matched"),
               "Failed to generate timestamps: no word matched")
       ELSE NotifyAndReturn(SuccessNotification, ReturnGenerated)
    /\ UNCHANGED invocation
    /\ UNCHANGED <<RecitationSurah, Timestamp, posts, recitation_surah, created,
                   audio_url, words, text, user, alignment_data, evt, word_idx,
                   exc>>

\* lines 207-218
NotifySuccess ==
    /\ pc = "notify_success"
    /\ NotifyAndReturn(SuccessNotification, ReturnGenerated)
    /\ UNCHANGED invocation
    /\ UNCHANGED <<RecitationSurah, Timestamp, posts, recitation_surah, created,
                   audio_url, words, text, user, alignment_data, evt, word_idx,
                   exc>>

\* line 208 raises: caught by the inner handler, as it is inside the inner try
NotifySuccessRaises ==
    /\ pc = "notify_success"
    /\ Truthy(user)
    /\ RaiseInner(NotifyError)
    /\ UNCHANGED invocation
    /\ UNCHANGED <<RecitationSurah, Timestamp, Notification, posts,
                   recitation_surah, created, audio_url, words, text, user,
                   alignment_data, evt, word_idx, result>>

\* Lines 219-232 without str(e) in the message and the return value
ExceptInner_Generic ==
    /\ pc = "except_inner"
    /\ NotifyAndReturn(
          FailedNotification("quran.generate_recitation_timestamps", "error"),
          "Failed to generate timestamps")
    /\ UNCHANGED invocation
    /\ UNCHANGED <<RecitationSurah, Timestamp, posts, recitation_surah, created,
                   audio_url, words, text, user, alignment_data, evt, word_idx,
                   exc>>

\* Lines 219-232 sending the request once more after a failed call
ExceptInner_Retry ==
    /\ pc = "except_inner"
    /\ IF evt = 0 /\ posts < 2
       THEN /\ pc' = "post"
            /\ UNCHANGED <<Notification, result>>
       ELSE NotifyAndReturn(
               FailedNotification("quran.generate_recitation_timestamps", exc),
               ReturnFailed(exc))
    /\ UNCHANGED invocation
    /\ UNCHANGED <<RecitationSurah, Timestamp, posts, recitation_surah, created,
                   audio_url, words, text, user, alignment_data, evt, word_idx,
                   exc>>

\* Lines 219-232 with the rows of the run undone first
ExceptInner_Rollback ==
    /\ pc = "except_inner"
    /\ Timestamp' = <<>>
    /\ NotifyAndReturn(
          FailedNotification("quran.generate_recitation_timestamps", exc),
          ReturnFailed(exc))
    /\ UNCHANGED invocation
    /\ UNCHANGED <<RecitationSurah, posts, recitation_surah, created,
                   audio_url, words, text, user, alignment_data, evt, word_idx,
                   exc>>

\* lines 219-232
ExceptInner ==
    /\ pc = "except_inner"
    /\ NotifyAndReturn(
          FailedNotification("quran.generate_recitation_timestamps", exc),
          ReturnFailed(exc))
    /\ UNCHANGED invocation
    /\ UNCHANGED <<RecitationSurah, Timestamp, posts, recitation_surah, created,
                   audio_url, words, text, user, alignment_data, evt, word_idx,
                   exc>>

\* line 222 raises: caught by the outer handler
ExceptInnerRaises ==
    /\ pc = "except_inner"
    /\ Truthy(user)
    /\ RaiseOuter(NotifyError)
    /\ UNCHANGED invocation
    /\ UNCHANGED <<RecitationSurah, Timestamp, Notification, posts,
                   recitation_surah, created, audio_url, words, text, user,
                   alignment_data, evt, word_idx, result>>

\* lines 233-246
NotifyMissing ==
    /\ pc = "notify_missing"
    /\ NotifyAndReturn(
          FailedNotification("quran.tasks.generate_recitation_timestamps",
                             "missing audio_url or text"),
          ReturnMissing)
    /\ UNCHANGED invocation
    /\ UNCHANGED <<RecitationSurah, Timestamp, posts, recitation_surah, created,
                   audio_url, words, text, user, alignment_data, evt, word_idx,
                   exc>>

\* line 236 raises: caught by the outer handler
NotifyMissingRaises ==
    /\ pc = "notify_missing"
    /\ Truthy(user)
    /\ RaiseOuter(NotifyError)
    /\ UNCHANGED invocation
    /\ UNCHANGED <<RecitationSurah, Timestamp, Notification, posts,
                   recitation_surah, created, audio_url, words, text, user,
                   alignment_data, evt, word_idx, result>>

-----------------------------------------------------------------------------
(* Lines 247-260: the outer handler                                         *)

ExceptOuter ==
    /\ pc = "except_outer"
    /\ NotifyAndReturn(
          FailedNotification("quran.tasks.generate_recitation_timestamps", exc),
          ReturnFailed(exc))
    /\ UNCHANGED invocation
    /\ UNCHANGED <<RecitationSurah, Timestamp, posts, recitation_surah, created,
                   audio_url, words, text, user, alignment_data, evt, word_idx,
                   exc>>

\* line 250 raises: no handler is left
ExceptOuterRaises ==
    /\ pc = "except_outer"
    /\ Truthy(user)
    /\ Propagate(NotifyError)
    /\ UNCHANGED invocation
    /\ UNCHANGED <<RecitationSurah, Timestamp, Notification, posts,
                   recitation_surah, created, audio_url, words, text, user,
                   alignment_data, evt, word_idx, result>>

-----------------------------------------------------------------------------
(* The task.  The responses of EventSeqs carry "text" and a start >= 0 in    *)
(* every event, so KeyError('text') (WhileRaises) and a conversion error    *)
(* cannot occur on them; MatchRaises is then the insert raising.            *)

Next ==
    \/ GetOrCreate \/ GetOrCreateRaises
    \/ AttachFile \/ AttachFileRaises
    \/ GetUrl \/ GetUrlRaises
    \/ LoadWords \/ LoadWordsRaises
    \/ CheckInputs
    \/ Post \/ PostRaises
    \/ WhileStep
    \/ Match \/ MatchRaises
    \/ NoMatch
    \/ NotifySuccess \/ NotifySuccessRaises
    \/ ExceptInner \/ ExceptInnerRaises
    \/ NotifyMissing \/ NotifyMissingRaises
    \/ ExceptOuter \/ ExceptOuterRaises

Spec == Init /\ [][Next]_vars

-----------------------------------------------------------------------------
(* The task on whatever JSON array the service may answer with: events with  *)
(* an end of 0, a start of a day or more, a negative offset, or a missing   *)
(* "text" or "start" key, over a few short word lists.                      *)

WordLists == {<<"a">>, <<"a", "b">>, <<"b", "a">>, <<"a", "b", "a">>}

AnyEvents ==
    {OpenEvent(t, 0) : t \in WordTexts}
    \cup {Event(t, 1, 2) : t \in WordTexts}
    \cup {Event(t, 2, 0) : t \in WordTexts}
    \cup {OpenEvent("b", SecondsPerDay), OpenEvent("a", -1), Event("b", 1, -1),
          [start |-> 0], [text |-> "a"]}

AnyEventSeqs == SeqsUpTo(AnyEvents, MaxEvents)

LoadWordLists == LoadWordsFrom(WordLists)

PostAny == PostFrom(AnyEventSeqs)

NextEvents ==
    \/ GetOrCreate \/ GetOrCreateRaises
    \/ AttachFile \/ AttachFileRaises
    \/ GetUrl \/ GetUrlRaises
    \/ LoadWordLists \/ LoadWordsRaises
    \/ CheckInputs
    \/ PostAny \/ PostRaises
    \/ WhileStep \/ WhileRaises
    \/ Match \/ MatchRaises
    \/ NoMatch
    \/ NotifySuccess \/ NotifySuccessRaises
    \/ ExceptInner \/ ExceptInnerRaises
    \/ NotifyMissing \/ NotifyMissingRaises
    \/ ExceptOuter \/ ExceptOuterRaises

SpecEvents == Init /\ [][NextEvents]_vars

-----------------------------------------------------------------------------
(* The task invoked again for the same (recitation, surah) once a run has   *)
(* ended, up to MaxRuns times: the tables stay, the locals start afresh.    *)
(* The Word rows of the surah and the answer of the service for its audio   *)
(* are the same in every run.                                               *)

RerunWords == {<<"a", "b">>, <<"a", "a">>}

RerunBodies ==
    {<<OpenEvent("a", 0)>>,
     <<OpenEvent("a", 0), Event("b", 1, 2)>>,
     <<Event("b", 1, 2), OpenEvent("a", 0)>>}

\* What a run leaves for the record when it ends
Outcome ==
    [result |-> result, text |-> text, words |-> words, evt |-> evt,
     alignment_data |-> alignment_data]

\* The words and the answers the earlier runs have seen
KnownWords == {history[i].words : i \in {n \in 1..Len(history) : history[n].text # None}}
KnownBodies ==
    {history[i].alignment_data : i \in {n \in 1..Len(history) : history[n].evt >= 1}}

LoadWordsAgain ==
    LoadWordsFrom(IF KnownWords = {} THEN RerunWords ELSE KnownWords)

PostAgain == PostFrom(IF KnownBodies = {} THEN RerunBodies ELSE KnownBodies)

\* line 138: the task is called again, with the same or another file
Reinvoke ==
    /\ pc \in {"returned", "raised"}
    /\ Len(history) + 1 < MaxRuns
    /\ history' = Append(history, Outcome)
    /\ file_obj' \in {NewFile, OtherFile}
    /\ pc' = "get_or_create"
    /\ posts' = 0
    /\ recitation_surah' = 0
    /\ created' = FALSE
    /\ audio_url' = None
    /\ words' = <<>>
    /\ text' = None
    /\ user' = None
    /\ alignment_data' = <<>>
    /\ evt' = 0
    /\ word_idx' = 0
    /\ exc' = None
    /\ result' = None
    /\ UNCHANGED <<RecitationSurah, Timestamp, Notification>>

NextRerun ==
    \/ GetOrCreate \/ GetOrCreateRaises
    \/ AttachFile \/ AttachFileRaises
    \/ GetUrl \/ GetUrlRaises
    \/ LoadWordsAgain \/ LoadWordsRaises
    \/ CheckInputs
    \/ PostAgain \/ PostRaises
    \/ WhileStep
    \/ Match \/ MatchRaises
    \/ NoMatch
    \/ NotifySuccess \/ NotifySuccessRaises
    \/ ExceptInner \/ ExceptInnerRaises
    \/ NotifyMissing \/ NotifyMissingRaises
    \/ ExceptOuter \/ ExceptOuterRaises
    \/ Reinvoke

SpecRerun == Init /\ [][NextRerun]_vars

-----------------------------------------------------------------------------
(* Vocabulary of the properties                                             *)

Min(a, b) == IF a < b THEN a ELSE b

Terminal == {"returned", "raised"}

\* The service answered and the for loop was entered: evt - 1 events are done
InLoop == posts = 1 /\ evt >= 1

\* The for loop ran over every event
LoopDone == InLoop /\ evt = Len(alignment_data) + 1

\* The texts of a sequence of events
TextsOf(E) == [k \in 1..Len(E) |-> E[k].text]

\* The word indices of the rows written, in creation order
BoundWords == [i \in 1..Len(Timestamp) |-> Timestamp[i].word]

\* Text t occurs in T at a 0-based index >= cursor
Occurs(T, t, cursor) == \E j \in cursor..(Len(T) - 1) : T[j + 1] = t

\* The lowest such index
FirstAt(T, t, cursor) ==
    CHOOSE j \in cursor..(Len(T) - 1) :
        /\ T[j + 1] = t
        /\ \A i \in cursor..(j - 1) : T[i + 1] # t

\* The greedy first-occurrence-after-cursor reference: the rows for the
\* events E[k..], with the cursor at `cursor`.  An event without an occurrence
\* exhausts the cursor, so nothing after it is bound.
RECURSIVE Greedy(_, _, _, _, _)
Greedy(rs, T, E, k, cursor) ==
    IF k > Len(E) \/ ~Occurs(T, E[k].text, cursor) THEN <<>>
    ELSE LET j == FirstAt(T, E[k].text, cursor)
         IN  <<TimestampRow(rs, E[k], j)>> \o Greedy(rs, T, E, k + 1, j + 1)

-----------------------------------------------------------------------------
(* C1: the rows written by the matching loop are exactly those of the greedy *)
(* first-occurrence-after-cursor reference applied to the events handled so  *)
(* far: each event, in order, is bound to the lowest-index word at or after  *)
(* the cursor with the event's text, and the cursor moves one past it.  For  *)
(* words [a, b, a, c] and events [a, c] the finished loop has bound word 0   *)
(* and word 3 and nothing else.                                             *)
C1_GreedyReference ==
    /\ InLoop =>
          Timestamp = Greedy(recitation_surah, words,
                             SubSeq(alignment_data, 1, evt - 1), 1, 0)
    /\ (/\ LoopDone
        /\ words = <<"a", "b", "a", "c">>
        /\ TextsOf(alignment_data) = <<"a", "c">>) => BoundWords = <<0, 3>>

C1_Witness ==
    /\ pc = "returned"
    /\ result = ReturnGenerated
    /\ words = <<"a", "b", "a", "c">>
    /\ TextsOf(alignment_data) = <<"a", "c">>
    /\ BoundWords = <<0, 3>>

(* C2: when every event's text equals the text of the word at the same      *)
(* position, the k-th event handled is bound to word k: after the loop there *)
(* are exactly min(n, m) rows, row k on word k.                             *)
InOrder ==
    \A k \in 1..Min(Len(words), Len(alignment_data)) :
        alignment_data[k].text = words[k]

C2_InOrderMatch ==
    (InLoop /\ InOrder) =>
        /\ Len(Timestamp) = Min(evt - 1, Len(words))
        /\ \A i \in 1..Len(Timestamp) : Timestamp[i].word = i - 1
        /\ LoopDone => Len(Timestamp) = Min(Len(words), Len(alignment_data))

C2_Witness ==
    /\ pc = "returned"
    /\ result = ReturnGenerated
    /\ InOrder
    /\ Len(words) = 3
    /\ Len(alignment_data) = 2
    /\ BoundWords = <<0, 1>>

(* C3, as claimed: an event whose text occurs in no word at or after the    *)
(* cursor yields no row and leaves the cursor where it was, so a later event *)
(* whose text occurs among those words is still bound: the finished loop has *)
(* bound the words of the greedy matching that skips unmatched events.      *)
RECURSIVE SkipGreedy(_, _, _, _)
SkipGreedy(T, E, k, cursor) ==
    IF k > Len(E) THEN <<>>
    ELSE IF ~Occurs(T, E[k].text, cursor) THEN SkipGreedy(T, E, k + 1, cursor)
    ELSE LET j == FirstAt(T, E[k].text, cursor)
         IN  <<j>> \o SkipGreedy(T, E, k + 1, j + 1)

C3_UnmatchedKeepsCursor ==
    LoopDone => BoundWords = SkipGreedy(words, alignment_data, 1, 0)

(* C3, amended: an event whose text occurs in no word at or after the cursor *)
(* yields no row and no error, and its scan moves the cursor to the end of   *)
(* words; the later events are still iterated, without error, and none of    *)
(* them yields a row.                                                       *)
Unmatched ==
    /\ pc = "while"
    /\ word_idx < Len(words)
    /\ ~Occurs(words, word_data.text, word_idx)

C3_UnmatchedExhaustsCursor ==
    /\ [](InLoop => (Len(Timestamp) < evt - 1 => word_idx = Len(words)))
    /\ [][Unmatched =>
            /\ pc' = "while"
            /\ evt' = evt
            /\ word_idx' = word_idx + 1
            /\ Timestamp' = Timestamp]_vars
    /\ [][(pc = "while" /\ word_idx = Len(words)) =>
            /\ pc' \in {"while", "notify_success"}
            /\ evt' = evt + 1
            /\ word_idx' = word_idx
            /\ Timestamp' = Timestamp]_vars

C3_Witness ==
    /\ pc = "returned"
    /\ result = ReturnGenerated
    /\ words = <<"a", "b">>
    /\ TextsOf(alignment_data) = <<"c", "a">>
    /\ word_idx = 2
    /\ Timestamp = <<>>

(* C4: the number of rows written is at most min(|words|, |events|).        *)
C4_CountBound ==
    Len(Timestamp) <= Min(Len(words), Len(alignment_data))

C4_Witness ==
    /\ pc = "returned"
    /\ Len(words) = 3
    /\ Len(alignment_data) = 2
    /\ Len(Timestamp) = 2

(* C5: the cursor never decreases, stays within 0..|words|, and no word has  *)
(* more than one row.                                                       *)
C5_CursorMonotone ==
    /\ [](/\ word_idx \in 0..Len(words)
          /\ \A i, j \in 1..Len(Timestamp) :
                i # j => Timestamp[i].word # Timestamp[j].word)
    /\ [][word_idx' >= word_idx]_vars

C5_Witness ==
    /\ pc = "while"
    /\ evt = 2
    /\ word_idx = 3
    /\ words = <<"a", "b", "a", "c">>
    /\ BoundWords = <<0>>

-----------------------------------------------------------------------------
(* Vocabulary of the outcome properties                                     *)

\* Line 161 has been reached with an empty audio URL or an empty joined text
\* (text is set by line 158 and is None before)
MissingInput == text # None /\ (audio_url = "" \/ text = "")

\* requests.post, raise_for_status or json raised: the loop was never entered
AlignFailed == posts = 1 /\ evt = 0

\* The rows of each message type
Successes == {i \in 1..Len(Notification) : Notification[i].message_type = "success"}
Failures == {i \in 1..Len(Notification) : Notification[i].message_type = "failed"}

MissingText == "missing audio_url or text"
InnerController == "quran.generate_recitation_timestamps"
OuterController == "quran.tasks.generate_recitation_timestamps"

\* The one failure row a run leaves, or none without a recipient
FailureRows(controller, cause) ==
    IF Truthy(user)
    THEN <<[user |-> user, resource_controller |-> controller,
            message |-> "Failed to generate recitation timestamps for recitation r1: "
                        \o cause,
            message_type |-> "failed"]>>
    ELSE <<>>

C8_OneOutcomeOneNotification ==
    pc \in Terminal =>
        /\ pc = "returned"
        /\ Truthy(user) =>
              /\ Len(Notification) = 1
              /\ Notification[1].message_type =
                    IF result = ReturnGenerated THEN "success" ELSE "failed"
        /\ ~Truthy(user) => Notification = <<>>

(* C9: no failure leaves the task as an exception: whichever step fails,     *)
(* the task returns a failure result.                                       *)
C9_NothingEscapes ==
    pc \in Terminal =>
        /\ pc = "returned"
        /\ exc # None => result \notin {None, ReturnGenerated}

(* C10, as claimed: with no events, or with no words (and an audio URL), the *)
(* run writes no row and, when nothing raised, reports success.             *)
NoEvents == InLoop /\ alignment_data = <<>>
NoWords == text # None /\ words = <<>>

C10_EmptyIsSuccess ==
    (NoEvents \/ (NoWords /\ audio_url # "")) =>
        /\ Timestamp = <<>>
        /\ (pc = "returned" /\ exc = None) => result = ReturnGenerated

(* C10, amended: with no events the run writes no row and, when nothing      *)
(* raised, reports success, as does every run that finishes the loop without *)
(* a match.  With no words the run writes no row and raises nothing in       *)
(* matching, but the joined text is empty: it never calls the service and,   *)
(* when nothing raised, returns the missing-input failure.                  *)
C10_EmptySequences ==
    /\ NoEvents =>
          /\ Timestamp = <<>>
          /\ (pc = "returned" /\ exc = None) => result = "timestamps generated"
    /\ NoWords =>
          /\ Timestamp = <<>>
          /\ posts = 0
          /\ (pc = "returned" /\ exc = None) =>
                result = "Failed: missing audio_url or text"
    /\ (LoopDone /\ Timestamp = <<>> /\ pc = "returned" /\ exc = None) =>
          /\ result = "timestamps generated"
          /\ Failures = {}

C10_Witness ==
    /\ pc = "returned"
    /\ NoEvents
    /\ words = <<"a", "b">>
    /\ user = "creator"
    /\ result = ReturnGenerated
    /\ Cardinality(Successes) = 1

-----------------------------------------------------------------------------
(* C11: a run makes at most one request to the alignment service, exactly    *)
(* one once line 161 found the audio URL and the text non-empty, and a       *)
(* failed request is not sent again.                                        *)
InputsPresent == text # None /\ audio_url # "" /\ text # ""

C11_OneRequest ==
    /\ posts \in {0, 1}
    /\ posts = 1 => InputsPresent
    /\ (InputsPresent /\ pc \notin {"check_inputs", "post"}) => posts = 1
    /\ AlignFailed => pc # "post"

C11_Witness ==
    /\ pc = "returned"
    /\ AlignFailed
    /\ exc = "read timed out"
    /\ posts = 1

-----------------------------------------------------------------------------
(* C17 as stated: the steps happen in the order token loading, network call, *)
(* matching, persistence: no event is matched before the call has returned, *)
(* and no record is in the store before the loop has been over every event. *)
C17_PersistAfterMatching ==
    /\ posts >= 1 => text # None
    /\ evt >= 1 => posts = 1
    /\ Timestamp # <<>> => LoopDone

\* The loop holds event k of the response
Holding(k) == InLoop /\ pc = "while" /\ evt = k

(* C17, amended: token loading comes before the network call and the call    *)
(* before any matching, but persistence is interleaved with matching: each  *)
(* record is written in the very step that matches its event, before the    *)
(* next event is looked at, so that while event k is held the store already *)
(* has one record for every event before k that found an occurrence.        *)
C17_PersistWhileMatching ==
    /\ [](posts >= 1 => text # None)
    /\ [](evt >= 1 => posts = 1)
    /\ [](Timestamp # <<>> => InLoop)
    /\ [](InLoop =>
            Len(Timestamp) = Len(Greedy(recitation_surah, words,
                                        SubSeq(alignment_data, 1, evt - 1), 1, 0)))
    /\ [][Len(Timestamp') # Len(Timestamp) =>
            /\ pc = "while"
            /\ Len(Timestamp') = Len(Timestamp) + 1
            /\ evt' = evt + 1]_vars

C17_Witness ==
    /\ Holding(2)
    /\ Len(alignment_data) = 2
    /\ Len(Timestamp) = 1

-----------------------------------------------------------------------------
(* C19: every record binds a word and an event with exactly the same text,  *)
(* belongs to the association the run resolved, and is written for the      *)
(* event the loop holds, at a word index above that of every record written *)
(* before it: events are taken in increasing order and so are the words.    *)
C19_ExactAndIncreasing ==
    /\ [](\A i \in 1..Len(Timestamp) :
            /\ Timestamp[i].recitation_surah = recitation_surah
            /\ recitation_surah \in 1..Len(RecitationSurah)
            /\ Timestamp[i].word \in 0..(Len(words) - 1)
            /\ \A j \in 1..(i - 1) : Timestamp[j].word < Timestamp[i].word)
    /\ [][Len(Timestamp') > Len(Timestamp) =>
            LET row == Timestamp'[Len(Timestamp')]
            IN  /\ row.word \in 0..(Len(words) - 1)
                /\ words[row.word + 1] = alignment_data[evt].text
                /\ row.start_time = TimeOfDay(alignment_data[evt].start)
                /\ evt' = evt + 1
                /\ evt' > evt]_vars

C19_Witness ==
    /\ pc = "returned"
    /\ result = "timestamps generated"
    /\ words = <<"a", "b", "a", "c">>
    /\ TextsOf(alignment_data) = <<"b", "c">>
    /\ BoundWords = <<1, 3>>

-----------------------------------------------------------------------------
\* The rows of the run have start times that do not decrease with the word
StartsNonDecreasing ==
    \A i, j \in 1..Len(Timestamp) :
        Timestamp[i].word < Timestamp[j].word =>
            Timestamp[i].start_time <= Timestamp[j].start_time

(* C14 as stated: for every word list and every answer of the service the   *)
(* start times of the rows of a run do not decrease in word index order.    *)
C14_StartsOrdered == InLoop => StartsNonDecreasing

\* The start offsets of E, where present, lie within one day and do not
\* decrease along E
StartsAscend(E) ==
    /\ \A k \in 1..Len(E) :
          "start" \in DOMAIN E[k] => E[k].start \in 0..(SecondsPerDay - 1)
    /\ \A k, l \in 1..Len(E) :
          (k < l /\ "start" \in DOMAIN E[k] /\ "start" \in DOMAIN E[l]) =>
              E[k].start <= E[l].start

(* C14, amended: the start times of the rows of a run do not decrease in    *)
(* word index order whenever the start offsets of the answer's events are   *)
(* themselves non-decreasing in event order and all lie in [0, 86400); the  *)
(* matching keeps the order of the events, it does not create one.          *)
C14_StartsFollowEvents ==
    (InLoop /\ StartsAscend(alignment_data)) => StartsNonDecreasing

C14_Witness ==
    /\ pc = "returned"
    /\ result = "timestamps generated"
    /\ StartsAscend(alignment_data)
    /\ Len(Timestamp) = 2
    /\ Timestamp[1].word < Timestamp[2].word
    /\ Timestamp[1].start_time < Timestamp[2].start_time

-----------------------------------------------------------------------------
(* C15: a row has no end time exactly when its event has no "end": an event *)
(* without "end" gives a row without end_time, and an event with an "end",  *)
(* the value 0 included, gives a row whose end_time is that offset.         *)
C15_EndTimeIffEnd ==
    [][Len(Timestamp') > Len(Timestamp) =>
          LET row == Timestamp'[Len(Timestamp')]
              wd == alignment_data[evt]
          IN  /\ ("end_time" \in DOMAIN row) <=> ("end" \in DOMAIN wd)
              /\ "end" \in DOMAIN wd =>
                    /\ "end_time" \in DOMAIN row
                    /\ row.end_time = wd.end % SecondsPerDay]_vars

-----------------------------------------------------------------------------
\* The run failed while the loop held event evt: KeyError, a conversion
\* error or the insert raising
LoopFailed == InLoop /\ exc # None /\ evt <= Len(alignment_data)

(* C16: when a run fails while it handles event k, on a malformed event or  *)
(* on the insert of a row, the rows it wrote for the events before k are    *)
(* still in the store, unchanged, from the failure to the end of the run;   *)
(* the run then returns the failure result or raises, and never reports     *)
(* success.                                                                 *)
C16_PartialWritesStay ==
    /\ [](LoopFailed =>
            Timestamp = Greedy(recitation_surah, words,
                               SubSeq(alignment_data, 1, evt - 1), 1, 0))
    /\ [][LoopFailed' => Timestamp' = Timestamp]_vars
    /\ []((LoopFailed /\ pc \in Terminal) =>
            /\ Successes = {}
            /\ pc = "returned" =>
                  result = "Failed to generate timestamps: " \o exc)

C16_Witness ==
    /\ pc = "returned"
    /\ LoopFailed
    /\ evt = 2
    /\ exc = "'text'"
    /\ Len(Timestamp) = 1
    /\ Failures # {}

-----------------------------------------------------------------------------
\* The algorithm that stops at cursor exhaustion: the rows and the outcome
\* ("ok" or the error of the event it stopped on) for the events E[k..]
\* with the cursor at `cursor` and `rows` written
RECURSIVE Stopping(_, _, _, _, _, _)
Stopping(rs, T, E, k, cursor, rows) ==
    IF k > Len(E) \/ cursor >= Len(T) THEN [rows |-> rows, outcome |-> "ok"]
    ELSE IF "text" \notin DOMAIN E[k] THEN [rows |-> rows, outcome |-> "'text'"]
    ELSE IF ~Occurs(T, E[k].text, cursor)
         THEN Stopping(rs, T, E, k + 1, Len(T), rows)
    ELSE IF ConversionError(E[k]) # None
         THEN [rows |-> rows, outcome |-> ConversionError(E[k])]
    ELSE LET j == FirstAt(T, E[k].text, cursor)
         IN  Stopping(rs, T, E, k + 1, j + 1,
                      Append(rows, TimestampRow(rs, E[k], j)))

StoppingRun == Stopping(recitation_surah, words, alignment_data, 1, 0, <<>>)

\* The cursor is past the last word while the loop still has events
Exhausted == InLoop /\ pc = "while" /\ word_idx >= Len(words)

(* C18: the loop of the code, which goes on over the remaining events after *)
(* the cursor has reached the number of words, gives the same rows and the  *)
(* same outcome as the algorithm that stops there: when the loop is over,   *)
(* the stopping algorithm ends "ok" with the same rows; when the loop       *)
(* raises on an event, the stopping algorithm fails with the same error and *)
(* the same rows (an insert that raises aside, where the code has the rows  *)
(* of the events before it); and once the cursor is at the end no later     *)
(* event writes a row, moves the cursor or raises, whatever it holds.       *)
C18_StopEquivalent ==
    /\ []((LoopDone /\ pc = "notify_success") =>
            /\ StoppingRun.outcome = "ok"
            /\ StoppingRun.rows = Timestamp)
    /\ []((LoopFailed /\ pc = "except_inner" /\ exc # PersistError) =>
            /\ StoppingRun.outcome = exc
            /\ StoppingRun.rows = Timestamp)
    /\ []((LoopFailed /\ pc = "except_inner" /\ exc = PersistError) =>
            /\ Len(Timestamp) < Len(StoppingRun.rows)
            /\ Timestamp = SubSeq(StoppingRun.rows, 1, Len(Timestamp)))
    /\ [][Exhausted =>
            /\ Timestamp' = Timestamp
            /\ word_idx' = word_idx
            /\ exc' = None
            /\ evt' = evt + 1]_vars

C18_Witness ==
    /\ pc = "returned"
    /\ result = "timestamps generated"
    /\ words = <<"a", "b">>
    /\ alignment_data = <<Event("b", 1, 2), [start |-> 0]>>
    /\ word_idx = Len(words)
    /\ BoundWords = <<1>>

-----------------------------------------------------------------------------
\* The run is past lines 142-151 without an exception
Prepared == recitation_surah # 0 /\ pc \notin {"attach_file", "raised"}

(* C12: over any number of runs for the pair there is never more than one   *)
(* association row, and exactly one, kept from then on, as soon as a run's  *)
(* get_or_create has returned; a run sets the file of the association only  *)
(* at line 150, only when the row it found had none, and to its own         *)
(* file_obj; a file that is set is never replaced, and past lines 142-151   *)
(* the association has a file.                                              *)
C12_OneAssociation ==
    /\ [](Len(RecitationSurah) <= 1)
    /\ [](recitation_surah # 0 =>
            Len(RecitationSurah) = 1 /\ RecitationSurah[1].id = recitation_surah)
    /\ [](Prepared => RecitationSurah[recitation_surah].file # None)
    /\ [][RecitationSurah # <<>> =>
            /\ Len(RecitationSurah') = 1
            /\ RecitationSurah'[1].id = RecitationSurah[1].id
            /\ RecitationSurah[1].file # None =>
                  RecitationSurah'[1].file = RecitationSurah[1].file
            /\ RecitationSurah'[1].file # RecitationSurah[1].file =>
                  /\ pc = "attach_file"
                  /\ ~created
                  /\ RecitationSurah'[1].file = file_obj]_vars

C12_Witness ==
    /\ Len(history) = 1
    /\ pc = "returned"
    /\ ~created
    /\ file_obj = OtherFile
    /\ Len(RecitationSurah) = 1
    /\ RecitationSurah[1].file = NewFile

-----------------------------------------------------------------------------
\* This run and every run before it returned success
AllSucceeded ==
    /\ pc = "returned"
    /\ result = "timestamps generated"
    /\ \A n \in 1..Len(history) : history[n].result = "timestamps generated"

\* The words one run binds for the words and the answer of this run
MatchedWords ==
    LET rows == Greedy(recitation_surah, words, alignment_data, 1, 0)
    IN  {rows[i].word : i \in 1..Len(rows)}

\* The rows bound to word w of the association
RowsOf(w) ==
    {i \in 1..Len(Timestamp) :
        Timestamp[i].recitation_surah = recitation_surah /\ Timestamp[i].word = w}

(* C13: runs for the same pair, with the same words and the same answer of  *)
(* the service, share the one association and do not deduplicate: rows are  *)
(* only ever added after those already stored, which stay as they are, and  *)
(* when the k-th run returns success after k - 1 successful runs, every     *)
(* word a run binds has k rows of that association and every other word has *)
(* none.                                                                    *)
C13_NoDeduplication ==
    /\ [](/\ Len(RecitationSurah) <= 1
          /\ \A i \in 1..Len(Timestamp) :
                Timestamp[i].recitation_surah \in 1..Len(RecitationSurah))
    /\ [][/\ Len(Timestamp') >= Len(Timestamp)
          /\ SubSeq(Timestamp', 1, Len(Timestamp)) = Timestamp]_vars
    /\ [](AllSucceeded =>
            \A w \in 0..(Len(words) - 1) :
                Cardinality(RowsOf(w)) =
                    IF w \in MatchedWords THEN Len(history) + 1 ELSE 0)

C13_Witness ==
    /\ AllSucceeded
    /\ Len(history) = 1
    /\ Cardinality(MatchedWords) = 2
    /\ Len(Timestamp) = 4
    /\ Timestamp[3] = Timestamp[1]

====
